---- MODULE Spec2Model ----
(***************************************************************************)
(* Senior-citizen registration backend (backend/server.py).                *)
(*                                                                         *)
(* Python strings are modelled as sequences of one-character strings, so   *)
(* that parsing and formatting are computed character by character.        *)
(***************************************************************************)
EXTENDS Integers, Sequences, FiniteSets, TLC

VARIABLES
    today,       \* the UTC date read by datetime.now(timezone.utc)
    reqs,        \* the Create-registration calls, one record per call
    store,       \* db.registrations: the inserted documents, in insertion order
    vision_client, \* TRUE when the module built a Vision client at import
    calls,       \* the Extract-text calls, one record per call
    full_text,   \* the text handed to parse_ocr_text
    parsed,      \* parse_ocr_text's parsed_data, and whether it has run
    ticks        \* midnights passed so far

vars == <<today, reqs, store, vision_client, calls, full_text, parsed, ticks>>

(***************************************************************************)
(* Bounds of the model.                                                    *)
(***************************************************************************)
MaxReqs == 2          \* concurrent Create-registration calls
MaxTicks == 1         \* midnights that pass during a run of Spec
FirstYear == 2024     \* first year of the clock's range
NumYears == 2         \* years of the clock's range
YearSpread == 1       \* birth years tried around (today's year - 50)
MaxCalls == 2         \* concurrent Extract-text calls
MaxChunks == 4        \* pieces of a text handed to parse_ocr_text
MaxNameLines == 3     \* lines of a card after the padding lines
MaxPadLines == 5      \* padding lines before the lines of a card

(***************************************************************************)
(* Characters and decimal conversion.                                      *)
(***************************************************************************)
DigitChars == <<"0", "1", "2", "3", "4", "5", "6", "7", "8", "9">>

IsDigit(c) == c \in {DigitChars[n] : n \in 1..10}

DigitVal(c) == (CHOOSE n \in 1..10 : DigitChars[n] = c) - 1

RECURSIVE DecStr(_)
DecStr(n) ==
    IF n < 10 THEN <<DigitChars[n + 1]>>
    ELSE DecStr(n \div 10) \o <<DigitChars[(n % 10) + 1]>>

\* str(n) / f"{n}" of a Python int
IntStr(n) == IF n < 0 THEN <<"-">> \o DecStr(-n) ELSE DecStr(n)

RECURSIVE ZeroPad(_, _)
ZeroPad(s, width) == IF Len(s) >= width THEN s ELSE ZeroPad(<<"0">> \o s, width)

RECURSIVE IntOf(_)
IntOf(s) ==
    IF s = <<>> THEN 0
    ELSE 10 * IntOf(SubSeq(s, 1, Len(s) - 1)) + DigitVal(s[Len(s)])

(***************************************************************************)
(* The calendar of datetime.date.                                          *)
(***************************************************************************)
IsLeap(y) == (y % 4 = 0 /\ y % 100 # 0) \/ y % 400 = 0

DaysInMonth(y, m) ==
    IF m = 2 THEN (IF IsLeap(y) THEN 29 ELSE 28)
    ELSE IF m \in {4, 6, 9, 11} THEN 30 ELSE 31

ValidDate(dt) ==
    /\ dt.y \in 1..9999
    /\ dt.m \in 1..12
    /\ dt.d \in 1..DaysInMonth(dt.y, dt.m)

Date(y, m, d) == [y |-> y, m |-> m, d |-> d]

NextDay(dt) ==
    IF dt.d < DaysInMonth(dt.y, dt.m) THEN Date(dt.y, dt.m, dt.d + 1)
    ELSE IF dt.m < 12 THEN Date(dt.y, dt.m + 1, 1)
    ELSE Date(dt.y + 1, 1, 1)

PrevDay(dt) ==
    IF dt.d > 1 THEN Date(dt.y, dt.m, dt.d - 1)
    ELSE IF dt.m > 1 THEN Date(dt.y, dt.m - 1, DaysInMonth(dt.y, dt.m - 1))
    ELSE Date(dt.y - 1, 12, 31)

(***************************************************************************)
(* Letters, str.upper() and str.lower().                                   *)
(***************************************************************************)
LowerChars == <<"a", "b", "c", "d", "e", "f", "g", "h", "i", "j", "k", "l", "m",
                "n", "o", "p", "q", "r", "s", "t", "u", "v", "w", "x", "y", "z">>

UpperChars == <<"A", "B", "C", "D", "E", "F", "G", "H", "I", "J", "K", "L", "M",
                "N", "O", "P", "Q", "R", "S", "T", "U", "V", "W", "X", "Y", "Z">>

IsLower(c) == \E n \in 1..26 : LowerChars[n] = c

IsUpper(c) == \E n \in 1..26 : UpperChars[n] = c

UpperChar(c) ==
    IF IsLower(c) THEN UpperChars[CHOOSE n \in 1..26 : LowerChars[n] = c] ELSE c

LowerChar(c) ==
    IF IsUpper(c) THEN LowerChars[CHOOSE n \in 1..26 : UpperChars[n] = c] ELSE c

Upper(s) == [i \in 1..Len(s) |-> UpperChar(s[i])]

Lower(s) == [i \in 1..Len(s) |-> LowerChar(s[i])]

\* the character at position i, or "" past either end
At(s, i) == IF i \in 1..Len(s) THEN s[i] ELSE ""

(***************************************************************************)
(* datetime.strptime(s, fmt).date() for the four formats of calculate_age. *)
(* A format is its sequence of directives and literal characters.  The     *)
(* directives match as the regular expressions of _strptime do, their      *)
(* alternatives tried in order:                                            *)
(*   %d  3[0-1] | [1-2]\d | 0[1-9] | [1-9] | " "[1-9]                      *)
(*   %m  1[0-2] | 0[1-9] | [1-9]                                           *)
(*   %Y  \d\d\d\d                                                          *)
(* No other alternative of a directive can succeed where the first one     *)
(* that matches is followed by a mismatch, because every literal of these  *)
(* formats is a non-digit; so the first matching alternative is final.     *)
(***************************************************************************)
MutFormats ==
    << <<"%m", "/", "%d", "/", "%Y">>,
       <<"%d", "-", "%m", "-", "%Y">>,
       <<"%Y", "-", "%m", "-", "%d">>,
       <<"%d", ".", "%m", ".", "%Y">> >>

Formats ==
    << <<"%d", "/", "%m", "/", "%Y">>,
       <<"%d", "-", "%m", "-", "%Y">>,
       <<"%Y", "-", "%m", "-", "%d">>,
       <<"%d", ".", "%m", ".", "%Y">> >>

NonZeroDigit(c) == IsDigit(c) /\ c # "0"

DayLen(s, i) ==
    LET a == At(s, i)
        b == At(s, i + 1)
    IN  IF a = "3" /\ b \in {"0", "1"} THEN 2
        ELSE IF a \in {"1", "2"} /\ IsDigit(b) THEN 2
        ELSE IF a = "0" /\ NonZeroDigit(b) THEN 2
        ELSE IF NonZeroDigit(a) THEN 1
        ELSE IF a = " " /\ NonZeroDigit(b) THEN 2
        ELSE 0

MonthLen(s, i) ==
    LET a == At(s, i)
        b == At(s, i + 1)
    IN  IF a = "1" /\ b \in {"0", "1", "2"} THEN 2
        ELSE IF a = "0" /\ NonZeroDigit(b) THEN 2
        ELSE IF NonZeroDigit(a) THEN 1
        ELSE 0

YearLen(s, i) == IF \A k \in 0..3 : IsDigit(At(s, i + k)) THEN 4 ELSE 0

DirectiveLen(tok, s, i) ==
    IF tok = "%d" THEN DayLen(s, i)
    ELSE IF tok = "%m" THEN MonthLen(s, i)
    ELSE IF tok = "%Y" THEN YearLen(s, i)
    ELSE IF At(s, i) = tok THEN 1 ELSE 0

\* int() of a matched field; int(" 5") is 5
FieldVal(s) == IF s # <<>> /\ s[1] = " " THEN IntOf(Tail(s)) ELSE IntOf(s)

NoMatch == [ok |-> FALSE, end |-> 0, d |-> 0, m |-> 0, y |-> 0]

\* format_regex.match(data_string): the fields found and where the match ends
RECURSIVE MatchFormat(_, _, _, _, _)
MatchFormat(s, i, fmt, k, got) ==
    IF k > Len(fmt) THEN [got EXCEPT !.ok = TRUE, !.end = i]
    ELSE LET n == DirectiveLen(fmt[k], s, i)
             v == FieldVal(SubSeq(s, i, i + n - 1))
         IN  IF n = 0 THEN NoMatch
             ELSE MatchFormat(s, i + n, fmt, k + 1,
                    IF fmt[k] = "%d" THEN [got EXCEPT !.d = v]
                    ELSE IF fmt[k] = "%m" THEN [got EXCEPT !.m = v]
                    ELSE IF fmt[k] = "%Y" THEN [got EXCEPT !.y = v]
                    ELSE got)

NoDate == [ok |-> FALSE, date |-> Date(0, 0, 0)]

Mutstrptime(s, fmt) ==
    LET r == MatchFormat(s, 1, fmt, 1, NoMatch)
    IN  IF r.ok /\ ValidDate(Date(r.y, r.m, r.d))
        THEN [ok |-> TRUE, date |-> Date(r.y, r.m, r.d)]
        ELSE NoDate

\* ok = FALSE stands for ValueError: no match, unconverted data remains,
\* or a day, month or year that is out of range for date
strptime(s, fmt) ==
    LET r == MatchFormat(s, 1, fmt, 1, NoMatch)
    IN  IF r.ok /\ r.end = Len(s) + 1 /\ ValidDate(Date(r.y, r.m, r.d))
        THEN [ok |-> TRUE, date |-> Date(r.y, r.m, r.d)]
        ELSE NoDate

MutBirthdayNotYet(now, birth) ==
    \/ now.m < birth.m
    \/ now.m = birth.m /\ now.d <= birth.d

\* (today.month, today.day) < (birth_date.month, birth_date.day)
BirthdayNotYet(now, birth) ==
    \/ now.m < birth.m
    \/ now.m = birth.m /\ now.d < birth.d

calculate_age(birth_date_str, now) ==
    LET parses == {k \in 1..Len(Formats) : strptime(birth_date_str, Formats[k]).ok}
    IN  IF parses = {} THEN 0
        ELSE LET k == CHOOSE f \in parses : \A g \in parses : f <= g
                 birth_date == strptime(birth_date_str, Formats[k]).date
             IN  now.y - birth_date.y
                   - (IF BirthdayNotYet(now, birth_date) THEN 1 ELSE 0)

(***************************************************************************)
(* generate_registration_id.  str(uuid.uuid4()) is a random string of 32   *)
(* lowercase hexadecimal digits in groups of 8-4-4-4-12.                   *)
(***************************************************************************)
Uuid4Values ==
    { <<"3", "f", "9", "a", "0", "c", "1", "e", "-", "7", "b", "2", "d", "-",
        "4", "a", "6", "1", "-", "9", "c", "0", "e", "-",
        "5", "d", "8", "8", "1", "2", "a", "b", "3", "4", "f", "0">>,
      <<"0", "b", "7", "e", "5", "5", "a", "1", "-", "c", "3", "9", "0", "-",
        "4", "f", "2", "8", "-", "8", "d", "6", "b", "-",
        "0", "1", "a", "4", "e", "e", "7", "3", "b", "c", "2", "9">> }

Mutgenerate_registration_id(now, uuid4) ==
    <<"R", "E", "G">> \o IntStr(now.y) \o <<"-">> \o SubSeq(uuid4, 1, 4)

generate_registration_id(now, uuid4) ==
    LET year == now.y
        random_suffix == Upper(SubSeq(uuid4, 1, 4))
    IN  <<"R", "E", "G">> \o IntStr(year) \o <<"-">> \o random_suffix

(***************************************************************************)
(* What clients send as date_of_birth.  Each input carries, beside the     *)
(* string, what the client meant by it: a calendar date written in one of  *)
(* the four formats ("date"), a string that strptime takes under none of   *)
(* them ("unparseable"), or a date written without the leading zeros       *)
(* ("loose").                                                              *)
(***************************************************************************)
WriteField(tok, dt) ==
    IF tok = "%d" THEN ZeroPad(DecStr(dt.d), 2)
    ELSE IF tok = "%m" THEN ZeroPad(DecStr(dt.m), 2)
    ELSE IF tok = "%Y" THEN ZeroPad(DecStr(dt.y), 4)
    ELSE <<tok>>

RECURSIVE WriteFrom(_, _, _)
WriteFrom(dt, fmt, k) ==
    IF k > Len(fmt) THEN <<>> ELSE WriteField(fmt[k], dt) \o WriteFrom(dt, fmt, k + 1)

\* DD/MM/YYYY, DD-MM-YYYY, YYYY-MM-DD, DD.MM.YYYY
WrittenFormats ==
    << <<"%d", "/", "%m", "/", "%Y">>,
       <<"%d", "-", "%m", "-", "%Y">>,
       <<"%Y", "-", "%m", "-", "%d">>,
       <<"%d", ".", "%m", ".", "%Y">> >>

WriteDate(dt, f) == WriteFrom(dt, WrittenFormats[f], 1)

UnparseableStrings ==
    { <<>>,
      <<"a", "b", "c">>,
      <<"1", "5", "/", "0", "8", "/", "7", "0">>,
      <<"1", "9", "7", "0", "/", "0", "8", "/", "1", "5">>,
      <<"1", "5", "-", "0", "8", "/", "1", "9", "7", "0">>,
      <<"1", "5", "/", "0", "8", "/", "1", "9", "7", "0", " ">>,
      <<"1", "5", "/", "1", "3", "/", "1", "9", "7", "0">>,
      <<"0", "0", "0", "0", "-", "0", "1", "-", "0", "1">> }

LooseStrings ==
    { <<"5", "/", "8", "/", "1", "9", "7", "0">>,
      <<" ", "5", "/", "8", "/", "1", "9", "7", "0">>,
      <<"1", "9", "7", "0", "-", "8", "-", "1", "5">> }

DobInputs(written, unparseable, loose) ==
    {[str |-> WriteDate(w[1], w[2]),
      kind |-> IF ValidDate(w[1]) THEN "date" ELSE "unparseable",
      date |-> w[1], fmt |-> w[2]] : w \in written}
    \cup {[str |-> s, kind |-> "unparseable", date |-> Date(0, 0, 0), fmt |-> 0]
            : s \in unparseable}
    \cup {[str |-> s, kind |-> "loose", date |-> Date(0, 0, 0), fmt |-> 0]
            : s \in loose}

\* the same month and day n years earlier; no date when today is 29 February
\* and that year is not a leap year
YearsBefore(now, n) == Date(now.y - n, now.m, now.d)

Around(dt) ==
    IF ValidDate(dt) THEN {PrevDay(dt), dt, NextDay(dt)}
    ELSE {dt, Date(dt.y, 2, 28), Date(dt.y, 3, 1)}

BoundaryBirths(now) ==
    UNION {Around(YearsBefore(now, 50 + k))
             \cup {Date(now.y - 50 - k, 1, 1), Date(now.y - 50 - k, 12, 31)}
           : k \in (0 - YearSpread)..YearSpread}
    \cup Around(YearsBefore(now, -1))
    \cup {now}

BoundaryDobs(now) ==
    DobInputs(BoundaryBirths(now) \X (1..Len(WrittenFormats)), UnparseableStrings,
              LooseStrings)

FewDobs(now) ==
    DobInputs({<<YearsBefore(now, 50), 1>>, <<NextDay(YearsBefore(now, 50)), 2>>},
              {<<"1", "5", "/", "0", "8", "/", "1", "9", "7", "0", " ">>}, {})

(***************************************************************************)
(* create_registration.  The handler runs without suspension up to         *)
(* `await db.registrations.insert_one(doc)`; the insert then completes or  *)
(* raises while other calls run.                                           *)
(***************************************************************************)
Reqs == 1..MaxReqs

MinAge == 50

StoreErrors == {"ServerSelectionTimeoutError"}

IdleReq ==
    [pc |-> "idle", dob |-> <<>>, given |-> [kind |-> "", date |-> Date(0, 0, 0), fmt |-> 0],
     at |-> Date(0, 0, 0), age |-> 0, id_at |-> Date(0, 0, 0),
     reg_id |-> <<>>, inserts |-> 0,
     trace |-> <<>>, status |-> 0, detail |-> <<>>]

\* f"Age must be 50 or above. Current age: {age}"
EligibilityDetail(age) == <<"Age must be 50 or above. Current age: ">> \o IntStr(age)

MutEligible(age) == age >= MinAge - 1

Eligible(age) == ~(age < MinAge)

\* calculate_age (line 77) and generate_registration_id (line 89) each read
\* datetime.now(timezone.utc): the second reading is the first one, or the
\* next day when midnight UTC passes between the two
LaterReads(now, passed) ==
    {[now |-> now, passed |-> passed]}
      \cup (IF passed < MaxTicks
            THEN {[now |-> NextDay(now), passed |-> passed + 1]} ELSE {})

\* lines 264-294: everything before the insert completes
Submit(r, inputs) ==
    /\ reqs[r].pc = "idle"
    /\ \E in \in inputs :
         LET age == calculate_age(in.str, today)
             seen == [IdleReq EXCEPT !.dob = in.str, !.given = [kind |-> in.kind,
                                     date |-> in.date, fmt |-> in.fmt],
                                     !.at = today, !.age = age]
         IN  IF ~Eligible(age)
             THEN /\ reqs' = [reqs EXCEPT ![r] =
                     [seen EXCEPT !.pc = "rejected", !.status = 400,
                                  !.detail = EligibilityDetail(age),
                                  !.trace = <<"calculate_age">>]]
                  /\ UNCHANGED <<today, ticks>>
             ELSE \E uuid4 \in Uuid4Values, read \in LaterReads(today, ticks) :
                  /\ reqs' = [reqs EXCEPT ![r] =
                      [seen EXCEPT !.pc = "inserting",
                                   !.id_at = read.now,
                                   !.reg_id = generate_registration_id(read.now, uuid4),
                                   !.inserts = 1,
                                   !.trace = <<"calculate_age", "generate_registration_id",
                                               "insert_one">>]]
                  /\ today' = read.now
                  /\ ticks' = read.passed
    /\ UNCHANGED <<store, vision_client, calls, full_text, parsed>>

\* the document of the call, as model_dump() hands it to insert_one
Doc(r) ==
    [registration_id |-> reqs[r].reg_id, date_of_birth |-> reqs[r].dob,
     age |-> reqs[r].age, call |-> r]

\* line 294 completes, line 296 returns the record
InsertOk(r) ==
    /\ reqs[r].pc = "inserting"
    /\ store' = Append(store, Doc(r))
    /\ reqs' = [reqs EXCEPT ![r].pc = "ok", ![r].status = 200]
    /\ UNCHANGED <<today, vision_client, calls, full_text, parsed, ticks>>

MutInsertFail(r) ==
    /\ reqs[r].pc = "inserting"
    /\ reqs[r].inserts < 3
    /\ reqs' = [reqs EXCEPT ![r].inserts = @ + 1,
                            ![r].trace = Append(@, "insert_one")]
    /\ UNCHANGED <<today, store, vision_client, calls, full_text, parsed, ticks>>

\* line 294 raises; lines 300-302 turn it into HTTPException(500, str(e))
InsertFail(r) ==
    /\ reqs[r].pc = "inserting"
    /\ \E e \in StoreErrors :
         reqs' = [reqs EXCEPT ![r].pc = "failed", ![r].status = 500,
                              ![r].detail = <<e>>]
    /\ UNCHANGED <<today, store, vision_client, calls, full_text, parsed, ticks>>

\* midnight UTC passes
Tick ==
    /\ ticks < MaxTicks
    /\ today' = NextDay(today)
    /\ ticks' = ticks + 1
    /\ UNCHANGED <<reqs, store, vision_client, calls, full_text, parsed>>

(***************************************************************************)
(* String helpers of the field extractors: str.split, str.strip,           *)
(* `in`, ', '.join.                                                        *)
(***************************************************************************)
\* the characters \s matches and str.strip() removes
Whitespace == {" ", "\t", "\n", "\r", "\f"}

IsSpace(c) == c \in Whitespace

IsLetter(c) == IsLower(c) \/ IsUpper(c)

\* the characters \w matches
IsWord(c) == IsLetter(c) \/ IsDigit(c) \/ c = "_"

\* s[i-1:j], which stops at the end of s
Slice(s, i, j) == SubSeq(s, i, IF j <= Len(s) THEN j ELSE Len(s))

\* sub in s
Contains(s, sub) ==
    \E i \in 1..(Len(s) - Len(sub) + 1) : SubSeq(s, i, i + Len(sub) - 1) = sub

\* s.split(sep) for a one-character separator
RECURSIVE Split(_, _)
Split(s, sep) ==
    LET hits == {i \in 1..Len(s) : s[i] = sep}
    IN  IF hits = {} THEN <<s>>
        ELSE LET i == CHOOSE h \in hits : \A g \in hits : h <= g
             IN  <<SubSeq(s, 1, i - 1)>> \o Split(SubSeq(s, i + 1, Len(s)), sep)

\* s.strip()
Strip(s) ==
    LET inked == {i \in 1..Len(s) : ~IsSpace(s[i])}
    IN  IF inked = {} THEN <<>>
        ELSE SubSeq(s, CHOOSE a \in inked : \A b \in inked : a <= b,
                       CHOOSE a \in inked : \A b \in inked : a >= b)

\* s.split(): the maximal runs of non-whitespace characters
RECURSIVE SplitWords(_)
SplitWords(s) ==
    LET t == Strip(s)
        gaps == {i \in 1..Len(t) : IsSpace(t[i])}
    IN  IF t = <<>> THEN <<>>
        ELSE IF gaps = {} THEN <<t>>
        ELSE LET i == CHOOSE h \in gaps : \A g \in gaps : h <= g
             IN  <<SubSeq(t, 1, i - 1)>> \o SplitWords(SubSeq(t, i + 1, Len(t)))

\* ', '.join(parts)
RECURSIVE JoinComma(_)
JoinComma(parts) ==
    IF parts = <<>> THEN <<>>
    ELSE IF Len(parts) = 1 THEN parts[1]
    ELSE parts[1] \o <<",", " ">> \o JoinComma(Tail(parts))

\* re.sub(r'\s', '', s)
RemoveSpaces(s) == SelectSeq(s, LAMBDA c : ~IsSpace(c))

\* an Optional[str]: None, or a string
None == [found |-> FALSE, val |-> <<>>]

Some(s) == [found |-> TRUE, val |-> s]

\* `if x:` for an Optional[str]
Truthy(x) == x.found /\ x.val # <<>>

\* \d{n} at position i
DigitsAt(t, i, n) == \A k \in 0..(n - 1) : IsDigit(At(t, i + k))

\* re.search takes the leftmost position at which the pattern matches;
\* 0 stands for no match
Leftmost(hits) ==
    IF hits = {} THEN 0 ELSE CHOOSE h \in hits : \A g \in hits : h <= g

(***************************************************************************)
(* extract_aadhaar_number                                                  *)
(***************************************************************************)
\* \d{4}\s?\d{4} at j: \s? takes a whitespace character when there is one
\* and gives it back when the rest does not match
TwoGroupsEnd(t, j) ==
    IF ~DigitsAt(t, j, 4) THEN 0
    ELSE IF IsSpace(At(t, j + 4)) /\ DigitsAt(t, j + 5, 4) THEN j + 9
    ELSE IF DigitsAt(t, j + 4, 4) THEN j + 8
    ELSE 0

From2To9(c) == IsDigit(c) /\ c \notin {"0", "1"}

\* [2-9]\d{3}\s?\d{4}\s?\d{4}
SpacedAadhaarEnd(t, i) ==
    IF ~(From2To9(At(t, i)) /\ DigitsAt(t, i + 1, 3)) THEN 0
    ELSE LET taken == IF IsSpace(At(t, i + 4)) THEN TwoGroupsEnd(t, i + 5) ELSE 0
         IN  IF taken # 0 THEN taken ELSE TwoGroupsEnd(t, i + 4)

\* [2-9]\d{11}
PlainAadhaarEnd(t, i) ==
    IF From2To9(At(t, i)) /\ DigitsAt(t, i + 1, 11) THEN i + 12 ELSE 0

MutAadhaarNumber(t, i, end) == SubSeq(t, i, end - 1)

\* lines 103-105: the match, from i to before end, with its whitespace removed
AadhaarNumber(t, i, end) == RemoveSpaces(SubSeq(t, i, end - 1))

extract_aadhaar_number(text) ==
    LET spaced == Leftmost({i \in 1..Len(text) : SpacedAadhaarEnd(text, i) # 0})
        plain == Leftmost({i \in 1..Len(text) : PlainAadhaarEnd(text, i) # 0})
    IN  IF spaced # 0
        THEN Some(AadhaarNumber(text, spaced, SpacedAadhaarEnd(text, spaced)))
        ELSE IF plain # 0
        THEN Some(AadhaarNumber(text, plain, PlainAadhaarEnd(text, plain)))
        ELSE None

(***************************************************************************)
(* extract_pan_number                                                      *)
(***************************************************************************)
\* [A-Z]{5}[0-9]{4}[A-Z]{1}
PanEnd(t, i) ==
    IF /\ \A k \in 0..4 : IsUpper(At(t, i + k))
       /\ DigitsAt(t, i + 5, 4)
       /\ IsUpper(At(t, i + 9))
    THEN i + 10 ELSE 0

extract_pan_number(text) ==
    LET upper == Upper(text)
        i == Leftmost({k \in 1..Len(upper) : PanEnd(upper, k) # 0})
    IN  IF i # 0 THEN Some(SubSeq(upper, i, i + 9)) ELSE None

(***************************************************************************)
(* extract_date_of_birth.  All four patterns capture the date in group 1.  *)
(***************************************************************************)
DateSep(c) == c \in {"/", "-"}

\* \d{2}[/-]\d{2}[/-]\d{4}
DayFirstAt(t, i) ==
    /\ DigitsAt(t, i, 2) /\ DateSep(At(t, i + 2))
    /\ DigitsAt(t, i + 3, 2) /\ DateSep(At(t, i + 5))
    /\ DigitsAt(t, i + 6, 4)

\* \d{4}[/-]\d{2}[/-]\d{2}
YearFirstAt(t, i) ==
    /\ DigitsAt(t, i, 4) /\ DateSep(At(t, i + 4))
    /\ DigitsAt(t, i + 5, 2) /\ DateSep(At(t, i + 7))
    /\ DigitsAt(t, i + 8, 2)

\* \b before position i
WordBoundary(t, i) == IsWord(At(t, i - 1)) # IsWord(At(t, i))

\* label[:\s]*(\d{2}[/-]\d{2}[/-]\d{4}) at i, case-insensitive: the position
\* of the captured date, 0 if none.  The date starts with a digit, so it can
\* only follow the whole run of [:\s].
LabelledDateAt(t, i, label) ==
    LET n == Len(label)
        run == {j \in (i + n)..(Len(t) + 1) :
                  \A k \in (i + n)..(j - 1) : t[k] = ":" \/ IsSpace(t[k])}
        j == CHOOSE a \in run : \A b \in run : a >= b
    IN  IF Lower(Slice(t, i, i + n - 1)) = label /\ DayFirstAt(t, j) THEN j ELSE 0

extract_date_of_birth(text) ==
    LET N == 1..Len(text)
        p1 == Leftmost({i \in N : WordBoundary(text, i) /\ DayFirstAt(text, i)
                                   /\ WordBoundary(text, i + 10)})
        p2 == Leftmost({i \in N : WordBoundary(text, i) /\ YearFirstAt(text, i)
                                   /\ WordBoundary(text, i + 10)})
        p3 == Leftmost({i \in N : LabelledDateAt(text, i, <<"d", "o", "b">>) # 0})
        p4 == Leftmost({i \in N :
                          LabelledDateAt(text, i, <<"b", "i", "r", "t", "h">>) # 0})
        d3 == LabelledDateAt(text, p3, <<"d", "o", "b">>)
        d4 == LabelledDateAt(text, p4, <<"b", "i", "r", "t", "h">>)
    IN  IF p1 # 0 THEN Some(SubSeq(text, p1, p1 + 9))
        ELSE IF p2 # 0 THEN Some(SubSeq(text, p2, p2 + 9))
        ELSE IF p3 # 0 THEN Some(SubSeq(text, d3, d3 + 9))
        ELSE IF p4 # 0 THEN Some(SubSeq(text, d4, d4 + 9))
        ELSE None

(***************************************************************************)
(* extract_name_from_text                                                  *)
(***************************************************************************)
NameKeywords == {<<"n", "a", "m", "e">>, <<"n", "a", "a", "m">>}

HasKeyword(line, keywords) == \E k \in keywords : Contains(Lower(line), k)

\* line.split(':', 1)[1]
AfterColon(line) ==
    LET i == Leftmost({k \in 1..Len(line) : line[k] = ":"})
    IN  SubSeq(line, i + 1, Len(line))

\* what line i appends to name_candidates: a sequence of zero or one names
NameCandidate(lines, i) ==
    LET line == Strip(lines[i])
        after == Strip(AfterColon(line))
        below == Strip(lines[i + 1])
    IN  IF ~HasKeyword(line, NameKeywords) THEN <<>>
        ELSE IF Contains(line, <<":">>)
             THEN (IF Len(after) > 2 THEN <<after>> ELSE <<>>)
        ELSE IF i + 1 <= Len(lines)
             THEN (IF Len(below) > 2 THEN <<below>> ELSE <<>>)
        ELSE <<>>

RECURSIVE NameCandidates(_, _)
NameCandidates(lines, i) ==
    IF i > Len(lines) THEN <<>>
    ELSE NameCandidate(lines, i) \o NameCandidates(lines, i + 1)

\* lines 157: at least two words, the first two starting with an uppercase
\* letter
Capitalised(line) ==
    LET words == SplitWords(line)
    IN  Len(words) >= 2 /\ \A w \in 1..2 : IsUpper(words[w][1])

Mutextract_name_from_text(text) ==
    LET lines == Split(text, "\n")
        name_candidates == NameCandidates(lines, 1)
        caps == Leftmost({i \in 1..Len(lines) : i <= 5 /\ Capitalised(lines[i])})
    IN  IF name_candidates # <<>> THEN Some(name_candidates[1])
        ELSE IF \E i \in 1..Len(lines) : HasKeyword(lines[i], NameKeywords) THEN None
        ELSE IF caps # 0 THEN Some(Strip(lines[caps]))
        ELSE None

extract_name_from_text(text) ==
    LET lines == Split(text, "\n")
        name_candidates == NameCandidates(lines, 1)
        caps == Leftmost({i \in 1..Len(lines) : i <= 5 /\ Capitalised(lines[i])})
    IN  IF name_candidates # <<>> THEN Some(name_candidates[1])
        ELSE IF caps # 0 THEN Some(Strip(lines[caps]))
        ELSE None

(***************************************************************************)
(* parse_ocr_text                                                          *)
(***************************************************************************)
AddressKeywords ==
    {<<"a", "d", "d", "r", "e", "s", "s">>, <<"a", "d", "d", "r">>,
     <<"p", "i", "n", "c", "o", "d", "e">>, <<"p", "i", "n">>}

\* lines 194-202: the non-empty lines among the three after the first line
\* with an address keyword
AddressParts(lines) ==
    LET i == Leftmost({k \in 1..Len(lines) : HasKeyword(lines[k], AddressKeywords)})
        last == IF i + 3 <= Len(lines) THEN i + 3 ELSE Len(lines)
        stripped == [j \in 1..(last - i) |-> Strip(lines[i + j])]
    IN  IF i = 0 THEN <<>> ELSE SelectSeq(stripped, LAMBDA part : part # <<>>)

FieldNames == {"full_name", "date_of_birth", "id_number", "id_type", "address"}

Aadhaar == <<"A", "a", "d", "h", "a", "a", "r">>

PAN == <<"P", "A", "N">>

MutIdFields(aadhaar, pan) ==
    IF Truthy(pan) THEN [id_number |-> pan.val, id_type |-> PAN]
    ELSE IF Truthy(aadhaar) THEN [id_number |-> aadhaar.val, id_type |-> Aadhaar]
    ELSE [id_number |-> <<>>, id_type |-> <<>>]

\* lines 176-181
IdFields(aadhaar, pan) ==
    IF Truthy(aadhaar) THEN [id_number |-> aadhaar.val, id_type |-> Aadhaar]
    ELSE IF Truthy(pan) THEN [id_number |-> pan.val, id_type |-> PAN]
    ELSE [id_number |-> <<>>, id_type |-> <<>>]

\* lines 164-170: parsed_data as parse_ocr_text first builds it
EmptyFields ==
    [full_name |-> <<>>, date_of_birth |-> <<>>, id_number |-> <<>>,
     id_type |-> <<>>, address |-> <<>>]

parse_ocr_text(text) ==
    LET id == IdFields(extract_aadhaar_number(text), extract_pan_number(text))
        dob == extract_date_of_birth(text)
        name == extract_name_from_text(text)
        address_parts == AddressParts(Split(text, "\n"))
    IN  [EmptyFields EXCEPT
           !.id_number = id.id_number,
           !.id_type = id.id_type,
           !.date_of_birth = IF Truthy(dob) THEN dob.val ELSE @,
           !.full_name = IF Truthy(name) THEN name.val ELSE @,
           !.address = IF address_parts # <<>> THEN JoinComma(address_parts) ELSE @]

(***************************************************************************)
(* extract_text_from_id.  The handler suspends once, at                    *)
(* `await file.read()`; the Vision call is synchronous, so everything      *)
(* after the read runs without suspension.                                 *)
(***************************************************************************)
Calls == 1..MaxCalls

\* line 220
MaxUpload == 10 * 1024 * 1024

UploadSizes == {MaxUpload - 1, MaxUpload, MaxUpload + 1}

\* a Python dict with no keys
EmptyDict == <<>>

\* str(e) of the exceptions that file.read() and the Vision client raise
ReadErrors == {"I/O operation on closed file"}

VisionErrors == {"503 failed to connect to all addresses", "504 Deadline Exceeded"}

\* response.error.message when the Vision API answers with an error
VisionMessages == {"Bad image data"}

\* response.full_text_annotation.text
VisionTexts ==
    { <<>>,
      <<"N", "a", "m", "e", ":", " ", "R", "A", "J", "E", "S", "H", " ", "K", "U", "M",
        "A", "R", " ", "S", "H", "A", "R", "M", "A", "\n", "D", "O", "B", ":", " ",
        "1", "5", "/", "0", "8", "/", "1", "9", "7", "0", "\n", "A", "d", "d", "r",
        "e", "s", "s", ":", " ", "1", "2", "3", " ", "M", "a", "i", "n", " ", "S", "t",
        "r", "e", "e", "t", "\n", "N", "e", "w", " ", "D", "e", "l", "h", "i", " ",
        "1", "1", "0", "0", "0", "1", "\n", "2", "3", "4", "5", " ", "6", "7", "8",
        "9", " ", "0", "1", "2", "3">>,
      <<"I", "N", "C", "O", "M", "E", " ", "T", "A", "X", " ", "D", "E", "P", "A", "R",
        "T", "M", "E", "N", "T", "\n", "A", "b", "c", "d", "e", "1", "2", "3", "4",
        "f">> }

\* what document_text_detection does: raises, answers with an error message,
\* or answers with a text (the empty text when nothing was recognised)
VisionOutcomes ==
    {[kind |-> "raises", msg |-> m, text |-> <<>>] : m \in VisionErrors}
    \cup {[kind |-> "error", msg |-> m, text |-> <<>>] : m \in VisionMessages}
    \cup {[kind |-> "text", msg |-> "", text |-> t] : t \in VisionTexts}

NoResponse ==
    [success |-> FALSE, extracted_text |-> <<>>, parsed_data |-> EmptyDict,
     error |-> None]

NoRaise == [status |-> 0, detail |-> <<>>]

IdleCall ==
    [pc |-> "idle", size |-> 0, fault |-> "", ocr_calls |-> 0, parser_runs |-> 0,
     response |-> NoResponse, raised |-> NoRaise]

\* an exception: an HTTPException(status_code, detail), or another one with
\* its message
HttpError(status, detail) == [http |-> TRUE, status |-> status, detail |-> detail]

OtherError(msg) == [http |-> FALSE, status |-> 0, detail |-> <<msg>>]

\* str(e); for an HTTPException it is "<status_code>: <detail>"
ExcStr(e) == IF e.http THEN IntStr(e.status) \o <<": ">> \o e.detail ELSE e.detail

MutCaught(call, fault, e) ==
    IF e.http
    THEN [call EXCEPT !.pc = "raised", !.fault = fault,
                      !.raised = [status |-> e.status, detail |-> e.detail]]
    ELSE [call EXCEPT !.pc = "done", !.fault = fault,
                      !.response = [success |-> FALSE, extracted_text |-> <<>>,
                                    parsed_data |-> EmptyDict,
                                    error |-> Some(ExcStr(e))]]

\* lines 252-259: any exception of the try block, the HTTPExceptions raised in
\* it included, becomes a response with success=False and error=str(e)
Caught(call, fault, e) ==
    [call EXCEPT !.pc = "done", !.fault = fault,
                 !.response = [success |-> FALSE, extracted_text |-> <<>>,
                               parsed_data |-> EmptyDict,
                               error |-> Some(ExcStr(e))]]

MutNoText(call) ==
    [call EXCEPT !.pc = "done", !.fault = "empty",
                 !.response = [success |-> FALSE, extracted_text |-> <<>>,
                               parsed_data |-> EmptyFields,
                               error |-> Some(<<"No text detected in the image">>)]]

\* lines 235-241
NoText(call) ==
    [call EXCEPT !.pc = "done", !.fault = "empty",
                 !.response = [success |-> FALSE, extracted_text |-> <<>>,
                               parsed_data |-> EmptyDict,
                               error |-> Some(<<"No text detected in the image">>)]]

\* lines 243-250
Extracted(call, text) ==
    [call EXCEPT !.pc = "done", !.parser_runs = @ + 1,
                 !.response = [success |-> TRUE, extracted_text |-> text,
                               parsed_data |-> parse_ocr_text(text),
                               error |-> None]]

MutTooLarge(size) == size >= MaxUpload

\* line 220
TooLarge(size) == size > MaxUpload

\* lines 212-217: the call arrives with its upload; without a Vision client it
\* ends in HTTPException(500), raised outside the try block
Start(c) ==
    /\ calls[c].pc = "idle"
    /\ \E size \in UploadSizes :
         calls' = [calls EXCEPT ![c] =
            IF ~vision_client
            THEN [@ EXCEPT !.pc = "raised", !.size = size, !.fault = "not configured",
                           !.raised = [status |-> 500,
                                       detail |-> <<"Vision API not configured">>]]
            ELSE [@ EXCEPT !.pc = "reading", !.size = size]]
    /\ UNCHANGED <<today, reqs, store, vision_client, full_text, parsed, ticks>>

\* line 217 raises
ReadFail(c) ==
    /\ calls[c].pc = "reading"
    /\ \E e \in ReadErrors : calls' = [calls EXCEPT ![c] = Caught(@, "read", OtherError(e))]
    /\ UNCHANGED <<today, reqs, store, vision_client, full_text, parsed, ticks>>

\* lines 217-259 once the upload has been read
ReadDone(c) ==
    /\ calls[c].pc = "reading"
    /\ IF TooLarge(calls[c].size)
       THEN calls' = [calls EXCEPT ![c] =
                Caught(@, "size", HttpError(400, <<"File size exceeds 10MB limit">>))]
       ELSE \E out \in VisionOutcomes :
              LET called == [calls[c] EXCEPT !.ocr_calls = @ + 1]
              IN  calls' = [calls EXCEPT ![c] =
                     IF out.kind = "raises"
                     THEN Caught(called, "vision raises", OtherError(out.msg))
                     ELSE IF out.kind = "error"
                     THEN Caught(called, "vision error",
                                 HttpError(500, <<"Vision API error: ", out.msg>>))
                     ELSE IF out.text = <<>> THEN NoText(called)
                     ELSE Extracted(called, out.text)]
    /\ UNCHANGED <<today, reqs, store, vision_client, full_text, parsed, ticks>>

(***************************************************************************)
(* The texts handed to parse_ocr_text on its own: up to MaxChunks pieces   *)
(* put together.                                                           *)
(***************************************************************************)
Chunks ==
    { <<"2", "3", "4", "5">>,
      <<"6", "7", "8", "9", "0", "1", "2", "3">>,
      <<"6", "7", "8", "9", "\n", "0", "1", "2", "3">>,
      <<" ">>,
      <<"a", "b", "c", "D", "E", "1", "2", "3", "4", "f">>,
      <<"1">> }

RECURSIVE Concat(_)
Concat(pieces) == IF pieces = <<>> THEN <<>> ELSE pieces[1] \o Concat(Tail(pieces))

Texts == UNION {{Concat(ps) : ps \in [1..n -> Chunks]} : n \in 0..MaxChunks}

\* the texts the name finder is tried on: up to MaxPadLines lines without
\* keyword, colon or capital, then up to MaxNameLines lines of CardLines
CardLines ==
    { <<"N", "a", "m", "e", ":", " ", "R", "a", "m", " ", "R", "o", "y">>,
      <<"N", "A", "A", "M">>,
      <<"s", "u", "r", "n", "a", "m", "e", ":", "A", "l">>,
      <<" ", "S", "i", "t", "a", " ", "D", "e", "v", "i", " ">>,
      <<"a", "b">>,
      <<"N", "a", "m", "e", " ", ":", " ", "A", ":", "B">> }

PadLine == <<"a", "b">>

RECURSIVE JoinLines(_)
JoinLines(ls) ==
    IF ls = <<>> THEN <<>>
    ELSE IF Len(ls) = 1 THEN ls[1]
    ELSE ls[1] \o <<"\n">> \o JoinLines(Tail(ls))

NameTexts ==
    UNION {{JoinLines([k \in 1..pad |-> PadLine] \o ls) : ls \in [1..n -> CardLines]} :
             pad \in 0..MaxPadLines, n \in 0..MaxNameLines}

NotParsed == [done |-> FALSE, data |-> EmptyFields]

ParseText ==
    /\ ~parsed.done
    /\ parsed' = [done |-> TRUE, data |-> parse_ocr_text(full_text)]
    /\ UNCHANGED <<today, reqs, store, vision_client, calls, full_text, ticks>>

(***************************************************************************)
(* The specifications.                                                     *)
(***************************************************************************)
ClockYears == FirstYear..(FirstYear + NumYears - 1)

AllTodays ==
    {dt \in [y : ClockYears, m : 1..12, d : 1..31] : ValidDate(dt)}

MonthEnds ==
    {dt \in AllTodays : dt.m \in {2, 12} /\ dt.d = DaysInMonth(dt.y, dt.m)}

\* no Create-registration call yet, an empty collection
InitRegistration ==
    /\ reqs = [r \in Reqs |-> IdleReq]
    /\ store = <<>>
    /\ ticks = 0

\* no Extract-text call and no text under parse
InitRest ==
    /\ vision_client = FALSE
    /\ calls = [c \in Calls |-> IdleCall]
    /\ full_text = <<>>
    /\ parsed = NotParsed

Init ==
    /\ today \in MonthEnds
    /\ InitRegistration
    /\ InitRest

Next ==
    \/ \E r \in Reqs : Submit(r, FewDobs(today))
    \/ \E r \in Reqs : InsertOk(r)
    \/ \E r \in Reqs : InsertFail(r)
    \/ Tick

Spec == Init /\ [][Next]_vars

\* one call on every day of the clock's range, with the birth dates around
\* the eligibility boundary
InitElig ==
    /\ today \in AllTodays
    /\ InitRegistration
    /\ InitRest

NextElig ==
    \/ Submit(1, BoundaryDobs(today))
    \/ InsertOk(1)
    \/ InsertFail(1)

SpecElig == InitElig /\ [][NextElig]_vars

\* Extract-text calls, with and without a Vision client
InitOcr ==
    /\ today \in {Date(FirstYear, 1, 1)}
    /\ InitRegistration
    /\ vision_client \in BOOLEAN
    /\ calls = [c \in Calls |-> IdleCall]
    /\ full_text = <<>>
    /\ parsed = NotParsed

NextOcr ==
    \/ \E c \in Calls : Start(c)
    \/ \E c \in Calls : ReadFail(c)
    \/ \E c \in Calls : ReadDone(c)

SpecOcr == InitOcr /\ [][NextOcr]_vars

\* parse_ocr_text applied to every text of Texts
InitParse ==
    /\ today \in {Date(FirstYear, 1, 1)}
    /\ InitRegistration
    /\ vision_client = FALSE
    /\ calls = [c \in Calls |-> IdleCall]
    /\ full_text \in Texts
    /\ parsed = NotParsed

NextParse == ParseText

SpecParse == InitParse /\ [][NextParse]_vars

\* parse_ocr_text applied to every text of NameTexts
InitName ==
    /\ today \in {Date(FirstYear, 1, 1)}
    /\ InitRegistration
    /\ vision_client = FALSE
    /\ calls = [c \in Calls |-> IdleCall]
    /\ full_text \in NameTexts
    /\ parsed = NotParsed

NextName == ParseText

SpecName == InitName /\ [][NextName]_vars

(***************************************************************************)
(* Properties of create_registration and calculate_age.                    *)
(***************************************************************************)
DocsOf(r) == {i \in 1..Len(store) : store[i].call = r}

Started == {r \in Reqs : reqs[r].pc # "idle"}

\* C1: every stored record has age >= 50, and a call whose computed age is
\* below 50 ends in the eligibility error (400) having inserted nothing.
C1_StoredAgeAtLeast50 ==
    /\ \A i \in 1..Len(store) : store[i].age >= 50
    /\ \A r \in Started :
         reqs[r].age < 50 =>
            /\ reqs[r].pc = "rejected"
            /\ reqs[r].status = 400
            /\ reqs[r].inserts = 0
            /\ DocsOf(r) = {}

C1_Witness ==
    \E r, q \in Reqs :
        /\ reqs[r].pc = "ok" /\ DocsOf(r) # {} /\ reqs[r].age = 50
        /\ reqs[q].pc = "rejected" /\ reqs[q].age = 49

\* the birth date exactly 50 years before the day of the call
FiftyYearsBefore(r) == YearsBefore(reqs[r].at, 50)

\* C2: a birth date exactly 50 years before today, in any of the four
\* formats, gives age 50 and is not rejected; the day after it (one day short
\* of 50 years) gives age 49 and is rejected with status 400, the detail
\* ending in the computed age.
C2_EligibilityBoundary ==
    \A r \in Started :
        (reqs[r].given.kind = "date" /\ ValidDate(FiftyYearsBefore(r))) =>
            /\ reqs[r].given.date = FiftyYearsBefore(r) =>
                 /\ reqs[r].age = 50
                 /\ reqs[r].pc \in {"inserting", "ok", "failed"}
            /\ reqs[r].given.date = NextDay(FiftyYearsBefore(r)) =>
                 /\ reqs[r].age = 49
                 /\ reqs[r].pc = "rejected"
                 /\ reqs[r].status = 400
                 /\ reqs[r].detail =
                      <<"Age must be 50 or above. Current age: ", "4", "9">>

C2_Witness ==
    /\ reqs[1].given.kind = "date"
    /\ reqs[1].given.date = NextDay(FiftyYearsBefore(1))
    /\ reqs[1].at = Date(FirstYear + 1, 2, 28)
    /\ reqs[1].given.fmt = 4
    /\ reqs[1].pc = "rejected"

InsertCalls(r) == {i \in 1..Len(reqs[r].trace) : reqs[r].trace[i] = "insert_one"}

\* C3: a successful call has made exactly one insert, after the age check
\* and the identifier generation; a call rejected for eligibility has made
\* none; a call whose insert failed ends with status 500 after that single
\* attempt, nothing stored; no call ever makes a second insert.
C3_OneInsertPerSuccess ==
    \A r \in Reqs :
        /\ reqs[r].inserts <= 1
        /\ Cardinality(InsertCalls(r)) = reqs[r].inserts
        /\ reqs[r].pc = "ok" =>
             /\ reqs[r].inserts = 1
             /\ Cardinality(DocsOf(r)) = 1
             /\ reqs[r].trace =
                  <<"calculate_age", "generate_registration_id", "insert_one">>
        /\ reqs[r].pc = "rejected" => reqs[r].inserts = 0 /\ DocsOf(r) = {}
        /\ reqs[r].pc = "failed" =>
             /\ reqs[r].inserts = 1
             /\ reqs[r].status = 500
             /\ DocsOf(r) = {}
        /\ reqs[r].pc \in {"idle", "inserting"} => DocsOf(r) = {}

C3_Witness ==
    \E r, q \in Reqs :
        /\ reqs[r].pc = "ok" /\ Cardinality(DocsOf(r)) = 1
        /\ reqs[q].pc = "failed" /\ reqs[q].inserts = 1

\* C4: no two stored records carry the same registration_id.
C4_IdsDistinct ==
    \A i, j \in 1..Len(store) :
        i # j => store[i].registration_id # store[j].registration_id

\* the age by the year-difference rule, the (month, day) pairs compared as
\* the numbers 100 * month + day
NaiveAge(now, birth) ==
    (now.y - birth.y)
      - (IF 100 * now.m + now.d < 100 * birth.m + birth.d THEN 1 ELSE 0)

NotAfter(a, b) ==
    10000 * a.y + 100 * a.m + a.d <= 10000 * b.y + 100 * b.m + b.d

\* C6 as stated: for a birth date in any of the four formats the age is
\* non-negative and follows the year-difference rule.
C6_Original ==
    \A r \in Started :
        reqs[r].given.kind = "date" =>
            /\ reqs[r].age >= 0
            /\ reqs[r].age = NaiveAge(reqs[r].at, reqs[r].given.date)

\* C6 amended: for a birth date in any of the four formats the age follows
\* the year-difference rule; it is non-negative exactly when the birth date
\* is not after today.
C6_AgeByRule ==
    \A r \in Started :
        reqs[r].given.kind = "date" =>
            /\ reqs[r].age = NaiveAge(reqs[r].at, reqs[r].given.date)
            /\ reqs[r].age >= 0 <=> NotAfter(reqs[r].given.date, reqs[r].at)

C6_Witness ==
    /\ reqs[1].given.kind = "date"
    /\ reqs[1].given.fmt = 3
    /\ reqs[1].given.date.y = reqs[1].at.y - 51
    /\ reqs[1].age = 50
    /\ reqs[1].pc = "ok"

\* C7: a date_of_birth that parses under none of the four formats gets age
\* 0, and the call ends in the eligibility rejection (400) whose detail
\* carries age 0, having inserted nothing.
C7_UnparseableIsAgeZero ==
    \A r \in Started :
        reqs[r].given.kind = "unparseable" =>
            /\ reqs[r].age = 0
            /\ reqs[r].pc = "rejected"
            /\ reqs[r].status = 400
            /\ reqs[r].detail = <<"Age must be 50 or above. Current age: ", "0">>
            /\ reqs[r].inserts = 0
            /\ DocsOf(r) = {}

C7_Witness ==
    \E r, q \in Reqs :
        /\ reqs[r].given.kind = "unparseable"
        /\ reqs[r].dob = <<"1", "5", "/", "0", "8", "/", "1", "9", "7", "0", " ">>
        /\ reqs[r].pc = "rejected"
        /\ reqs[q].pc = "ok"
        /\ Len(store) = 1

(***************************************************************************)
(* Properties of extract_text_from_id.                                     *)
(***************************************************************************)
Ended == {c \in Calls : calls[c].pc \in {"done", "raised"}}

TryFaults == {"read", "size", "vision raises", "vision error", "empty"}

\* C5 as stated: every failure, a missing Vision client included, ends in a
\* response with success=false and an error string, never in a raised error.
C5_Original ==
    \A c \in Ended :
        /\ calls[c].pc # "raised"
        /\ calls[c].fault # "" =>
             ~calls[c].response.success /\ calls[c].response.error.found

\* C5 amended: with a Vision client, every failure (reading the upload, its
\* size, the Vision call raising or answering with an error, an empty text)
\* ends in a response with success=false and a non-empty error string;
\* without one the call ends in a raised HTTP 500 "Vision API not
\* configured", and no other call ends in a raised error.
C5_StructuredFailure ==
    \A c \in Ended :
        /\ calls[c].fault \in TryFaults =>
             /\ calls[c].pc = "done"
             /\ ~calls[c].response.success
             /\ calls[c].response.error.found
             /\ calls[c].response.error.val # <<>>
        /\ calls[c].pc = "raised" <=> ~vision_client
        /\ calls[c].pc = "raised" =>
             /\ calls[c].fault = "not configured"
             /\ calls[c].raised.status = 500
             /\ calls[c].raised.detail = <<"Vision API not configured">>

C5_Witness ==
    \E c, d \in Ended :
        /\ calls[c].fault = "vision raises" /\ ~calls[c].response.success
        /\ calls[d].fault = "vision error"
        /\ calls[d].response.error =
             Some(<<"5", "0", "0", ": ", "Vision API error: ", "Bad image data">>)

\* C8: an upload of more than 10 MiB is rejected (with the size error once it
\* has been read, with the read error when reading it fails) and the Vision
\* client is not called for it; an upload of 10 MiB or less is not rejected
\* for its size, and the Vision client is called once it has been read.
C8_SizeLimit ==
    \A c \in Calls :
        /\ calls[c].size > 10 * 1024 * 1024 =>
             /\ calls[c].ocr_calls = 0
             /\ calls[c].pc = "done" =>
                  /\ ~calls[c].response.success
                  /\ calls[c].fault \in {"size", "read"}
                  /\ calls[c].fault = "size" =>
                       calls[c].response.error =
                         Some(<<"4", "0", "0", ": ", "File size exceeds 10MB limit">>)
        /\ (calls[c].size <= 10 * 1024 * 1024 /\ calls[c].pc = "done") =>
             /\ calls[c].fault # "size"
             /\ calls[c].fault # "read" => calls[c].ocr_calls = 1

C8_Witness ==
    \E c, d \in Ended :
        /\ calls[c].size = 10 * 1024 * 1024 + 1
        /\ calls[c].fault = "size" /\ calls[c].ocr_calls = 0
        /\ calls[d].size = 10 * 1024 * 1024
        /\ calls[d].response.success /\ calls[d].ocr_calls = 1

\* C9 as stated: an empty text gives success=false, an empty extracted_text,
\* the error "No text detected in the image" and a parsed_data with the five
\* fields, each the empty string; parse_ocr_text is not run.
C9_Original ==
    \A c \in Ended :
        calls[c].fault = "empty" =>
            /\ ~calls[c].response.success
            /\ calls[c].response.extracted_text = <<>>
            /\ calls[c].response.error = Some(<<"No text detected in the image">>)
            /\ DOMAIN calls[c].response.parsed_data = FieldNames
            /\ \A f \in FieldNames : calls[c].response.parsed_data[f] = <<>>
            /\ calls[c].parser_runs = 0

\* C9 amended: an empty text gives success=false, an empty extracted_text,
\* the error "No text detected in the image" and a parsed_data with no field
\* at all (the empty mapping); parse_ocr_text is not run.
C9_EmptyText ==
    \A c \in Ended :
        calls[c].fault = "empty" =>
            /\ ~calls[c].response.success
            /\ calls[c].response.extracted_text = <<>>
            /\ calls[c].response.error = Some(<<"No text detected in the image">>)
            /\ DOMAIN calls[c].response.parsed_data = {}
            /\ calls[c].parser_runs = 0

C9_Witness ==
    \E c \in Ended :
        /\ calls[c].fault = "empty"
        /\ calls[c].ocr_calls = 1
        /\ calls[c].size = 10 * 1024 * 1024

(***************************************************************************)
(* Properties of parse_ocr_text.                                           *)
(***************************************************************************)
DecimalDigits == {"0", "1", "2", "3", "4", "5", "6", "7", "8", "9"}

\* the positions of the 12 digits of an Aadhaar-shaped substring that starts
\* at i, with s1 and s2 (0 or 1) characters between its groups of four
ShapeDigits(i, s1, s2) ==
    [k \in 1..12 |-> i + (k - 1) + (IF k > 4 THEN s1 ELSE 0) + (IF k > 8 THEN s2 ELSE 0)]

\* 12 digits, the first from 2 to 9, in groups of four with at most one
\* whitespace character between two groups
AadhaarShapeAt(t, i, s1, s2) ==
    LET pos == ShapeDigits(i, s1, s2)
    IN  /\ pos[12] <= Len(t)
        /\ \A k \in 1..12 : t[pos[k]] \in DecimalDigits
        /\ t[i] \notin {"0", "1"}
        /\ s1 = 1 => t[i + 4] \in {" ", "\t", "\n", "\r", "\f"}
        /\ s2 = 1 => t[i + 8 + s1] \in {" ", "\t", "\n", "\r", "\f"}

AadhaarShapes(t) ==
    {sh \in (1..Len(t)) \X {0, 1} \X {0, 1} : AadhaarShapeAt(t, sh[1], sh[2], sh[3])}

\* the digits of the Aadhaar-shaped substring of t that starts first
FirstAadhaar(t) ==
    LET sh == CHOOSE a \in AadhaarShapes(t) : \A b \in AadhaarShapes(t) : a[1] <= b[1]
        pos == ShapeDigits(sh[1], sh[2], sh[3])
    IN  [k \in 1..12 |-> t[pos[k]]]

\* C10: a text with an Aadhaar-shaped substring is classified "Aadhaar" and
\* id_number is the first such substring without its whitespace (12 digits,
\* the first from 2 to 9), whether or not a PAN-shaped substring is there;
\* "PAN" is returned only when there is no Aadhaar-shaped substring; id_type
\* is empty exactly when id_number is.
C10_AadhaarFirst ==
    parsed.done =>
        /\ AadhaarShapes(full_text) # {} =>
             /\ parsed.data.id_type = <<"A", "a", "d", "h", "a", "a", "r">>
             /\ parsed.data.id_number = FirstAadhaar(full_text)
             /\ Len(parsed.data.id_number) = 12
             /\ parsed.data.id_number[1] \in DecimalDigits \ {"0", "1"}
        /\ parsed.data.id_type = <<"P", "A", "N">> => AadhaarShapes(full_text) = {}
        /\ parsed.data.id_type = <<>> <=> parsed.data.id_number = <<>>

C10_Witness ==
    /\ parsed.done
    /\ full_text = <<"a", "b", "c", "D", "E", "1", "2", "3", "4", "f",
                     "2", "3", "4", "5", " ", "6", "7", "8", "9", "\n",
                     "0", "1", "2", "3">>
    /\ parsed.data.id_type = <<"A", "a", "d", "h", "a", "a", "r">>
    /\ parsed.data.id_number = <<"2", "3", "4", "5", "6", "7", "8", "9", "0", "1", "2", "3">>

(***************************************************************************)
(* Properties of generate_registration_id.                                 *)
(***************************************************************************)
UpperHexChars == DecimalDigits \cup {"A", "B", "C", "D", "E", "F"}

DecimalSeq == <<"0", "1", "2", "3", "4", "5", "6", "7", "8", "9">>

DecimalValue(c) == (CHOOSE n \in 1..10 : DecimalSeq[n] = c) - 1

\* id reads REG, the four decimal digits of year, a hyphen, four characters
\* of 0-9 A-F
HasIdFormat(id, year) ==
    /\ Len(id) = 12
    /\ SubSeq(id, 1, 3) = <<"R", "E", "G">>
    /\ \A k \in 4..7 : id[k] \in DecimalDigits
    /\ 1000 * DecimalValue(id[4]) + 100 * DecimalValue(id[5])
         + 10 * DecimalValue(id[6]) + DecimalValue(id[7]) = year
    /\ id[8] = "-"
    /\ \A k \in 9..12 : id[k] \in UpperHexChars

\* C11: every identifier the generator produced, and the registration_id of
\* every stored record, reads REG<year>-<four characters of 0-9A-F>, where
\* <year> is the four-digit UTC year the generator read when it was called;
\* every call that passed the age check has such an identifier.
C11_IdFormat ==
    /\ \A r \in Reqs :
         /\ reqs[r].pc \in {"inserting", "ok", "failed"} => reqs[r].reg_id # <<>>
         /\ reqs[r].reg_id # <<>> => HasIdFormat(reqs[r].reg_id, reqs[r].id_at.y)
    /\ \A i \in 1..Len(store) :
         HasIdFormat(store[i].registration_id, reqs[store[i].call].id_at.y)

\* a stored record whose identifier has a letter in its suffix and was
\* generated after the year changed between the handler's two clock readings
C11_Witness ==
    \E r \in Reqs :
        /\ reqs[r].pc = "ok"
        /\ \E i \in DocsOf(r) : store[i].registration_id = reqs[r].reg_id
        /\ reqs[r].id_at.y = reqs[r].at.y + 1
        /\ \E k \in 9..12 : reqs[r].reg_id[k] \in {"A", "B", "C", "D", "E", "F"}

(***************************************************************************)
(* Properties of extract_name_from_text.                                   *)
(***************************************************************************)
\* the line holds 'name' or 'naam' in any mix of cases
IsKeywordLine(l) ==
    \E k \in 1..(Len(l) - 3) : Lower(SubSeq(l, k, k + 3)) \in NameKeywords

\* what the keyword line i offers: the text after its first colon, or the
\* following line when it has no colon, without the surrounding whitespace
Offered(lines, i) ==
    LET colons == {k \in 1..Len(lines[i]) : lines[i][k] = ":"}
        first == CHOOSE k \in colons : \A j \in colons : k <= j
    IN  IF colons # {} THEN Strip(SubSeq(lines[i], first + 1, Len(lines[i])))
        ELSE IF i < Len(lines) THEN Strip(lines[i + 1])
        ELSE <<>>

KeywordLines(lines) == {i \in 1..Len(lines) : IsKeywordLine(lines[i])}

OfferingLines(lines) == {i \in KeywordLines(lines) : Len(Offered(lines, i)) > 2}

\* the lines among the first five whose first two words start with a capital
CapitalisedLines(lines) ==
    {i \in 1..Len(lines) :
        /\ i <= 5
        /\ LET words == SplitWords(lines[i])
           IN  Len(words) >= 2 /\ IsUpper(words[1][1]) /\ IsUpper(words[2][1])}

First(set) == CHOOSE i \in set : \A j \in set : i <= j

\* the fallback is used whenever no keyword line offers a name
NameByCandidates(lines) ==
    IF OfferingLines(lines) # {} THEN Offered(lines, First(OfferingLines(lines)))
    ELSE IF CapitalisedLines(lines) # {}
         THEN Strip(lines[First(CapitalisedLines(lines))])
    ELSE <<>>

\* the fallback is used only when the text has no keyword line
NameByKeywordLines(lines) ==
    IF OfferingLines(lines) # {} THEN Offered(lines, First(OfferingLines(lines)))
    ELSE IF KeywordLines(lines) = {} /\ CapitalisedLines(lines) # {}
         THEN Strip(lines[First(CapitalisedLines(lines))])
    ELSE <<>>

\* C12 as stated: the name found is the offer of the first keyword line that
\* offers more than 2 characters; the capitalised-words fallback over the
\* first 5 lines is used only if the text has no keyword line; otherwise no
\* name is found (full_name stays empty).
C12_Original ==
    parsed.done =>
        parsed.data.full_name = NameByKeywordLines(Split(full_text, "\n"))

\* C12: the name found is the offer of the first keyword line ('name' or
\* 'naam', any case) that offers more than 2 characters, a line with a colon
\* offering the stripped text after its first colon and a line without one
\* the stripped following line; when no keyword line offers a name, keyword
\* lines present or not, the name is the first of the first 5 lines whose
\* first two words start with a capital, stripped; and when there is none
\* either, no name is found (full_name stays empty).
C12_NameFinder ==
    parsed.done =>
        parsed.data.full_name = NameByCandidates(Split(full_text, "\n"))

\* a keyword line that offers too little, and the fallback finding the
\* capitalised line below it
C12_Witness ==
    /\ parsed.done
    /\ full_text = <<"s", "u", "r", "n", "a", "m", "e", ":", "A", "l", "\n", " ", "S", "i", "t", "a", " ", "D", "e", "v", "i", " ">>
    /\ parsed.data.full_name = <<"S", "i", "t", "a", " ", "D", "e", "v", "i">>

====
